---- MODULE Spec2Model ----
(***************************************************************************)
(* State-machine model of the personal-finance client.                     *)
(*                                                                         *)
(* The front ends of the repository are modelled, one per value of `app`:  *)
(*   "page"  : pages/TransactionsPage.tsx with components/SplitModal.tsx,  *)
(*             the Table component with a row's Edit and Delete buttons,   *)
(*             and api/transactions.js (axios);                            *)
(*   "table" : the MVP App with components/TransactionForm.tsx and         *)
(*             components/TransactionsTable.tsx, and api.ts (fetch), the   *)
(*             user working in the table and submitting the form as it is; *)
(*   "form"  : the same App, the user working in the form;                 *)
(*   "shell" : App.tsx with the ThemeProvider, the UI store's theme and a  *)
(*             page's useQuery under lib/query-client.ts;                  *)
(*   "auth"  : App.tsx with the AuthProvider, the LandingPage's AuthForm,  *)
(*             Header's logout and lib/api-client.ts.                      *)
(* Money is counted in cents (0.01 = 1); the binary rounding of a decimal  *)
(* amount is an input of the one comparison it decides (SaveBlocked).      *)
(* Every HTTP request is a record in `pending` from the step of the        *)
(* handler that sends it to the step of that handler's continuation, which *)
(* takes the backend's answer; the answer to GET /transactions, which      *)
(* depends on when the backend reads its rows, is a step of its own        *)
(* (ServerAnswer).  Of the mount effects the fetches of categories and     *)
(* accounts, which only name the rows' columns and the form's options, are *)
(* left out.                                                               *)
(***************************************************************************)
EXTENDS Integers, Sequences, FiniteSets, TLC

\* ------------------------------------------------------------ bounds
MaxAmount == 1
MaxRequests == 4
NumTx == 2
NumPeople == 2
MaxMounts == 3

\* ------------------------------------------------------------ constants
\* 0.01 in cents: SplitModal.handleSave's tolerance
Tolerance == 1
\* the value of a missing property (JavaScript's undefined) of a share entry
Undefined == 0

VARIABLES
    app,                 \* which screen is mounted
    transactions,        \* TransactionsPage: the displayed list
    people,              \* TransactionsPage: the people list
    showSplitModal,      \* TransactionsPage
    selectedTransaction, \* TransactionsPage: a row, or NoRow
    shares,              \* SplitModal (while mounted)
    payer,               \* SplitModal (while mounted)
    theme,               \* useUIStore: the theme held in the UI store
    providerTheme,       \* ThemeProvider: its theme state
    rootClass,           \* the theme class of document.documentElement
    storage,             \* localStorage["vite-ui-theme"], or NoItem
    queryStatus,         \* useQuery: "pending", "success" or "error" ("idle": none)
    failureCount,        \* the failures of the query's fetch so far
    refreshKey,          \* App (MVP): the table's refreshKey
    items,               \* TransactionsTable: the displayed list
    editing,             \* TransactionsTable: the edit dialog's values, or NoEdit
    saving,              \* TransactionsTable
    form,                \* TransactionForm: the form's values
    user,                \* AuthProvider: the user, or NoUser
    isLoading,           \* AuthProvider
    token,               \* apiClient: its token, or NoItem
    localUser,           \* localStorage["user"]
    accessToken,         \* localStorage["access_token"], or NoItem
    isLogin,             \* LandingPage (while mounted)
    formData,            \* AuthForm (while mounted)
    formError,           \* AuthForm: its error (while mounted)
    formInstance,        \* how many times an AuthForm has been mounted
    error,               \* TransactionsTable
    pending,             \* requests in flight
    server,              \* the backend's transactions
    nextReq,             \* number of requests issued so far
    shownFetch,          \* the request whose listing was last put in the displayed list
    lastEvent            \* what the handler that ran last did

vars == <<app, transactions, people, showSplitModal, selectedTransaction,
          shares, payer, theme, providerTheme, rootClass, storage, queryStatus,
          failureCount, refreshKey, items, editing, saving, form, error, pending, server,
          nextReq, shownFetch, lastEvent, user, isLoading, token, localUser, accessToken,
          isLogin, formData, formError, formInstance>>

pageVars == <<transactions, people, showSplitModal, selectedTransaction, shares, payer>>
tableVars == <<refreshKey, items, editing, saving, error, form>>
shellVars == <<theme, providerTheme, rootClass, storage, queryStatus, failureCount>>
authVars == <<user, isLoading, token, localUser, accessToken, isLogin, formData, formError,
              formInstance>>

\* the MVP App is mounted
Mvp == app \in {"table", "form"}

\* ------------------------------------------------------------ helpers
Abs(x) == IF x < 0 THEN -x ELSE x

NoRow == [id |-> 0]
NoEdit == [id |-> 0]
NoEvent == [handler |-> "none"]

RECURSIVE SortedById(_)
\* a set of records with distinct ids as the list ordered by id
SortedById(S) ==
    IF S = {} THEN <<>>
    ELSE LET m == CHOOSE r \in S : \A q \in S : r.id <= q.id
         IN <<m>> \o SortedById(S \ {m})

\* xs.filter(keep)
RECURSIVE Filter(_, _)
Filter(xs, id) ==
    IF xs = <<>> THEN <<>>
    ELSE (IF Head(xs).id # id THEN <<Head(xs)>> ELSE <<>>) \o Filter(Tail(xs), id)

Range(f) == {f[i] : i \in DOMAIN f}

\* ------------------------------------------------------------ backend data
\* the transactions the backend starts with, as TransactionsPage rows
PageRow(i) == [id |-> i, amount_total |-> MaxAmount + 1,
               payer_person_id |-> ((i - 1) % NumPeople) + 1]
\* the same, as TransactionsTable rows
TableRow(i) == [id |-> i, date |-> [ymd |-> "2024-01-01", time |-> TRUE], type |-> "expense",
                currency |-> "EUR", amount |-> i]

ServerPeople == [i \in 1..NumPeople |-> [id |-> i]]

\* ------------------------------------------------------------ SplitModal
\* the text typed in a share input: a sign and digits ("" and "abc" have no digits)
NoDigits == -1
InputTexts == {[sign |-> "", digits |-> d] : d \in {NoDigits} \cup (0..MaxAmount)}
              \cup {[sign |-> "-", digits |-> 1]}

NaN == [nan |-> TRUE, v |-> 0]
\* parseFloat(amount)
parseFloat(text) ==
    IF text.digits = NoDigits THEN NaN
    ELSE [nan |-> FALSE, v |-> IF text.sign = "-" THEN -text.digits ELSE text.digits]

\* x || 0 for a number x
OrZero(x) == IF x.nan \/ x.v = 0 THEN 0 ELSE x.v

\* an empty slot of a sparse array
Hole == [person_id |-> Undefined, amount |-> 0, source |-> "<empty>"]

\* useState initialiser: people.map(p => ({person_id: p.id, amount: 0, source: "user_manual"}))
InitialShares(ps) == [i \in 1..Len(ps) |-> [person_id |-> ps[i].id, amount |-> 0, source |-> "user_manual"]]

RECURSIVE SumAmounts(_)
\* shares.reduce((sum, s) => sum + s.amount, 0); reduce skips empty slots
SumAmounts(sh) == IF sh = <<>> THEN 0 ELSE Head(sh).amount + SumAmounts(Tail(sh))

totalAssigned(sh) == SumAmounts(sh)
remaining(total, sh) == total - totalAssigned(sh)

\* handleSave's guard: Math.abs(remaining) > 0.01, on IEEE doubles.  The amounts are
\* decimals that doubles do not hold exactly: when the decimal difference is exactly
\* 0.01 the computed one lies just below or just above the double 0.01, depending on
\* the operands (10.01 - 10 = 0.009999999999999787, 100 - 99.99 =
\* 0.010000000000005116).  The model counts cents and leaves that to roundsUp; any
\* other difference in cents is at least 0.01 away from the threshold.
SaveBlocked_wide(total, sh, roundsUp) == Abs(remaining(total, sh)) > Tolerance + 1
SaveBlocked(total, sh, roundsUp) ==
    \/ Abs(remaining(total, sh)) > Tolerance
    \/ Abs(remaining(total, sh)) = Tolerance /\ roundsUp

\* newShares[index] = {...newShares[index], amount}, on a copy of shares
SetAmount(sh, index, amount) ==
    LET n == IF index > Len(sh) THEN index ELSE Len(sh)
        old == IF index <= Len(sh) THEN sh[index] ELSE Hole
    IN [i \in 1..n |->
          IF i = index
            THEN (IF old = Hole
                    THEN [person_id |-> Undefined, amount |-> amount, source |-> "undefined"]
                    ELSE [old EXCEPT !.amount = amount])
            ELSE IF i <= Len(sh) THEN sh[i] ELSE Hole]

\* the SplitModal is rendered: showSplitModal && selectedTransaction
Mounted == showSplitModal /\ selectedTransaction # NoRow

\* the state of an unmounted SplitModal
NoShares == <<>>
NoPayer == 0


\* ------------------------------------------------------------ requests
\* a request in flight: status is "sent", then "ok" or "failed" once the backend
\* has answered; prev is the list a TransactionsTable handler captured when it sent
\* the request
Request(id, kind, arg, body, payload, prev) ==
    [id |-> id, kind |-> kind, arg |-> arg, body |-> body, payload |-> payload,
     prev |-> prev, status |-> "sent", resp |-> <<>>]

NoBody == [payer_person_id |-> [t |-> "undefined"], shares |-> [t |-> "undefined"]]
NoPayload == [payer_person_id |-> NoPayer, shares |-> NoShares]

\* api.get('/transactions', { params: filters })
getTransactions(id) == Request(id, "getTransactions", 0, NoBody, NoPayload, <<>>)
\* api.get('/people')
getPeople(id) == Request(id, "getPeople", 0, NoBody, NoPayload, <<>>)
\* api.delete(`/transactions/${id}`)
deleteTransaction(id, txn) == Request(id, "delete", txn, NoBody, NoPayload, <<>>)
\* api.post(`/transactions/${id}/split`, { payer_person_id: payerPersonId, shares })
splitTransaction(id, txn, payerPersonId, sharesArg, payload) ==
    Request(id, "split", txn, [payer_person_id |-> payerPersonId, shares |-> sharesArg],
            payload, <<>>)

\* the values handleSaveSplitModal passes to splitTransaction(id, payerPersonId, shares):
\* it calls splitTransaction(selectedTransaction.id, payload), two arguments
SplitArgs(payload) ==
    [payerPersonId |-> [t |-> "object", v |-> payload], shares |-> [t |-> "undefined"]]

\* PATCH /transactions/{id}: the stored row with the body's fields, as the backend
\* returns it (a stored date carries a time, which toYmd cuts off again)
Patched(t, body) ==
    [t EXCEPT !.date = [ymd |-> body.date.ymd, time |-> body.date.ymd # ""],
              !.type = body.type, !.currency = body.currency, !.amount = body.amount]

\* the rows GET /transactions returns
Listing == SortedById(server)

\* the backend answers a GET /transactions with its rows of that moment, or fails;
\* the client handles the answer in a later step
ServerAnswer(r, ok) ==
    /\ r \in pending /\ r.status = "sent" /\ r.kind = "getTransactions"
    /\ pending' = (pending \ {r}) \cup
          {IF ok THEN [r EXCEPT !.status = "ok", !.resp = Listing]
                 ELSE [r EXCEPT !.status = "failed"]}
    /\ UNCHANGED <<app, authVars, shellVars, shownFetch, pageVars, tableVars, server, nextReq, lastEvent>>

\* the backend's transactions after a DELETE or PATCH it accepted
ServerApplies(r) ==
    CASE r.kind = "delete" -> {t \in server : t.id # r.arg}
      [] r.kind = "patch" -> {IF t.id = r.arg THEN Patched(t, r.payload) ELSE t : t \in server}
      [] OTHER -> server

\* the backend can accept a DELETE or PATCH only of a row it has
CanAccept(r) == \E t \in server : t.id = r.arg

\* the status of a request that got no response (a network error)
NetworkError == 0
\* the outcomes of a request: the response's status, or no response
Statuses == {200, 204, 404, 500, NetworkError}
\* response.ok: a status in the range 200-299
ResOk(status) == status \in 200..299
\* the backend answers a mutating request it has accepted with 200 and a JSON body or
\* with 204 and no body, and one it has not accepted with an error status and a
\* message; a request that fails on the network gets no response
Responses == {[status |-> 200, body |-> "json"], [status |-> 204, body |-> ""],
              [status |-> 404, body |-> "json"], [status |-> 500, body |-> "text"],
              [status |-> NetworkError, body |-> ""]}
\* axios rejects the promise unless the status is in 200-299 (no validateStatus is set)
axiosRejects(status) == ~ResOk(status)

\* ------------------------------------------------------------ TransactionsPage
\* .then((response) => setTransactions(response)); a rejected promise has no handler
PageTransactionsLoaded(r) ==
    /\ app = "page" /\ r \in pending /\ r.kind = "getTransactions" /\ r.status # "sent"
    /\ transactions' = IF r.status = "ok" THEN r.resp ELSE transactions
    /\ shownFetch' = IF r.status = "ok" THEN r.id ELSE shownFetch
    /\ pending' = pending \ {r}
    /\ lastEvent' = [handler |-> "setTransactions", req |-> r.id, ok |-> r.status = "ok",
                     shown |-> shownFetch]
    /\ UNCHANGED <<app, authVars, shellVars, people, showSplitModal, selectedTransaction, shares, payer,
                   tableVars, server, nextReq>>

\* getPeople().then((response) => setPeople(response))
\* (the people the backend lists never change: its answer is taken in the same step)
PagePeopleLoaded(r, ok) ==
    /\ app = "page" /\ r \in pending /\ r.kind = "getPeople"
    /\ people' = IF ok THEN ServerPeople ELSE people
    /\ pending' = pending \ {r}
    /\ lastEvent' = NoEvent
    /\ UNCHANGED <<app, authVars, shellVars, shownFetch, transactions, showSplitModal, selectedTransaction, shares, payer,
                   tableVars, server, nextReq>>

\* the state a SplitModal is mounted with
MountState_firstPerson(row, ps) ==
    [shares |-> InitialShares(ps),
     payer |-> IF ps = <<>> THEN row.payer_person_id ELSE ps[1].id]
MountState(row, ps) ==
    [shares |-> InitialShares(ps), payer |-> row.payer_person_id]

\* Table's Edit button: onEdit(row); the modal's overlay covers the table while open
handleOpenSplitModal(row) ==
    /\ app = "page" /\ ~Mounted
    /\ row \in Range(transactions)
    /\ selectedTransaction' = row
    /\ showSplitModal' = TRUE
    /\ shares' = MountState(row, people).shares
    /\ payer' = MountState(row, people).payer
    /\ lastEvent' = [handler |-> "handleOpenSplitModal", after |-> lastEvent.handler,
                     dirty |-> IF lastEvent.handler \in {"handleSave", "onClose"}
                               THEN lastEvent.dirty ELSE FALSE]
    /\ UNCHANGED <<app, authVars, shellVars, shownFetch, transactions, people, tableVars, pending, server, nextReq>>

\* a share input's onChange: one input is rendered per person
handleAmountChange(index, text) ==
    /\ app = "page" /\ Mounted
    /\ index \in 1..Len(people)
    /\ shares' = SetAmount(shares, index, OrZero(parseFloat(text)))
    /\ lastEvent' = NoEvent
    /\ UNCHANGED <<app, authVars, shellVars, shownFetch, transactions, people, showSplitModal, selectedTransaction, payer,
                   tableVars, pending, server, nextReq>>

\* the payer select's onChange: one option per person
setPayer(p) ==
    /\ app = "page" /\ Mounted
    /\ p \in {q.id : q \in Range(people)}
    /\ payer' = p
    /\ lastEvent' = NoEvent
    /\ UNCHANGED <<app, authVars, shellVars, shownFetch, transactions, people, showSplitModal, selectedTransaction, shares,
                   tableVars, pending, server, nextReq>>

\* has the editor been changed since it was mounted
Dirty == shares # InitialShares(people) \/ payer # selectedTransaction.payer_person_id

\* SplitModal's onClose prop (also the Cancel button)
onClose ==
    /\ app = "page" /\ Mounted
    /\ showSplitModal' = FALSE
    /\ selectedTransaction' = NoRow
    /\ shares' = NoShares
    /\ payer' = NoPayer
    /\ lastEvent' = [handler |-> "onClose", dirty |-> Dirty]
    /\ UNCHANGED <<app, authVars, shellVars, shownFetch, transactions, people, tableVars, pending, server, nextReq>>

\* the Save button: handleSave, with the onSave (handleSaveSplitModal, up to its
\* await) and onClose it calls
handleSave(roundsUp) ==
    /\ app = "page" /\ Mounted
    /\ LET total == selectedTransaction.amount_total
           payload == [payer_person_id |-> payer, shares |-> shares]
           args == SplitArgs(payload)
           before == [handler |-> "handleSave", total |-> total, shares |-> shares,
                      payer |-> payer, people |-> people, txn |-> selectedTransaction.id,
                      dirty |-> Dirty, before |-> transactions]
       IN IF SaveBlocked(total, shares, roundsUp)
            THEN /\ UNCHANGED <<showSplitModal, selectedTransaction, shares, payer,
                                pending, nextReq>>
                 /\ lastEvent' = before @@
                     [alerts |-> <<"The total assigned amount must match the transaction amount.">>,
                      onSave |-> <<>>, sent |-> {q.kind : q \in pending' \ pending}]
            ELSE /\ nextReq + 2 <= MaxRequests
                 /\ pending' = pending \cup
                      {splitTransaction(nextReq + 1, selectedTransaction.id,
                                        args.payerPersonId, args.shares, payload)}
                 /\ nextReq' = nextReq + 1
                 /\ showSplitModal' = FALSE
                 /\ selectedTransaction' = NoRow
                 /\ shares' = NoShares
                 /\ payer' = NoPayer
                 /\ lastEvent' = before @@
                     [alerts |-> <<>>, onSave |-> <<payload>>,
                      sent |-> {q.kind : q \in pending' \ pending}]
    /\ UNCHANGED <<app, authVars, shellVars, shownFetch, transactions, people, tableVars, server>>

\* what handleSaveSplitModal does once splitTransaction has resolved
AfterSplit_noRefetch(r) ==
    /\ pending' = pending \ {r}
    /\ nextReq' = nextReq
AfterSplit(r) ==
    /\ pending' = (pending \ {r}) \cup {getTransactions(nextReq + 1)}
    /\ nextReq' = nextReq + 1

\* handleSaveSplitModal after its await: nothing catches a rejection
\* (the backend's answer to the split, ok or not, is taken in the same step: a split
\* leaves the rows GET /transactions returns as they are)
splitDone(r, status) ==
    /\ app = "page" /\ r \in pending /\ r.kind = "split"
    /\ IF ~axiosRejects(status)
         THEN /\ showSplitModal' = FALSE
              /\ selectedTransaction' = NoRow
              /\ shares' = NoShares
              /\ payer' = NoPayer
              /\ AfterSplit(r)
         ELSE /\ pending' = pending \ {r}
              /\ UNCHANGED <<showSplitModal, selectedTransaction, shares, payer, nextReq>>
    /\ lastEvent' = [handler |-> "handleSaveSplitModal", req |-> r.id, txn |-> r.arg,
                     ok |-> ~axiosRejects(status), status |-> status, payload |-> r.payload, alerts |-> <<>>,
                     before |-> transactions, sent |-> {q.kind : q \in pending' \ pending}]
    /\ UNCHANGED <<app, authVars, shellVars, shownFetch, transactions, people, tableVars, server>>

\* Table's Delete button: handleDeleteRow up to its await
handleDeleteRow(row, confirmed) ==
    /\ app = "page" /\ ~Mounted
    /\ row \in Range(transactions)
    /\ IF confirmed
         THEN /\ nextReq + 2 <= MaxRequests
              /\ pending' = pending \cup {deleteTransaction(nextReq + 1, row.id)}
              /\ nextReq' = nextReq + 1
         ELSE UNCHANGED <<pending, nextReq>>
    /\ lastEvent' = [handler |-> "handleDeleteRow", before |-> transactions,
                     sent |-> {q.kind : q \in pending' \ pending}]
    /\ UNCHANGED <<app, authVars, shellVars, shownFetch, pageVars, tableVars, server>>

\* handleDeleteRow after its await: nothing catches a rejection
deleteDone(r, status) ==
    /\ app = "page" /\ r \in pending /\ r.kind = "delete"
    /\ ResOk(status) => CanAccept(r)
    /\ IF ~axiosRejects(status)
         THEN /\ server' = ServerApplies(r)
              /\ pending' = (pending \ {r}) \cup {getTransactions(nextReq + 1)}
              /\ nextReq' = nextReq + 1
         ELSE /\ pending' = pending \ {r}
              /\ UNCHANGED <<server, nextReq>>
    /\ lastEvent' = [handler |-> "handleDeleteRow.done", req |-> r.id,
                     ok |-> ~axiosRejects(status), status |-> status, before |-> transactions, alerts |-> <<>>,
                     sent |-> {q.kind : q \in pending' \ pending}]
    /\ UNCHANGED <<app, authVars, shellVars, shownFetch, pageVars, tableVars>>

\* ------------------------------------------------------------ TransactionsTable
\* api<T>(): await fetch(...) rejects on a network error, a response that is not ok
\* throws, and return res.json() rejects when the body is not JSON (an empty body)
apiThrows(res) ==
    \/ res.status = NetworkError
    \/ ~ResOk(res.status)
    \/ res.body # "json"

\* api<Transaction[]>('/transactions/?limit=100').then(setItems)
TableItemsLoaded(r) ==
    /\ Mvp /\ r \in pending /\ r.kind = "getTransactions" /\ r.status # "sent"
    /\ items' = IF r.status = "ok" THEN r.resp ELSE items
    /\ shownFetch' = IF r.status = "ok" THEN r.id ELSE shownFetch
    /\ pending' = pending \ {r}
    /\ lastEvent' = [handler |-> "setItems", req |-> r.id, ok |-> r.status = "ok",
                     shown |-> shownFetch]
    /\ UNCHANGED <<app, authVars, shellVars, pageVars, form, refreshKey, editing, saving, error, server, nextReq>>

\* xs.filter((x) => x.id !== id)
WithoutItem_all(xs, id) == <<>>
WithoutItem(xs, id) == Filter(xs, id)

\* the Delete button of a row: onDelete up to its await; the edit dialog covers the
\* table while it is open
onDelete(id, confirmed) ==
    /\ app = "table" /\ editing = NoEdit
    /\ id \in {x.id : x \in Range(items)}
    /\ IF confirmed
         THEN /\ nextReq + 1 <= MaxRequests
              /\ items' = WithoutItem(items, id)
              /\ pending' = pending \cup
                   {Request(nextReq + 1, "delete", id, NoBody, NoPayload, items)}
              /\ nextReq' = nextReq + 1
         ELSE UNCHANGED <<items, pending, nextReq>>
    /\ lastEvent' = [handler |-> "onDelete", before |-> items, alerts |-> <<>>,
                     sent |-> {q.kind : q \in pending' \ pending}]
    /\ UNCHANGED <<app, authVars, shellVars, shownFetch, pageVars, form, refreshKey, editing, saving, error, server>>

\* onDelete's catch block: alert('Failed to delete. Restoring item.')
DeleteFailureAlerts_none == <<>>
DeleteFailureAlerts == <<"Failed to delete. Restoring item.">>

\* the list a catch block puts back: setItems(prev)
Restored_none(r) == items
Restored(r) == r.prev

\* onDelete after its await
TableDeleteDone(r, res) ==
    /\ app = "table" /\ r \in pending /\ r.kind = "delete"
    /\ ResOk(res.status) => CanAccept(r)
    /\ server' = IF ResOk(res.status) THEN ServerApplies(r) ELSE server
    /\ items' = IF apiThrows(res) THEN Restored(r) ELSE items
    /\ pending' = pending \ {r}
    /\ lastEvent' = [handler |-> "onDelete.done", req |-> r.id, txn |-> r.arg,
                     ok |-> ~apiThrows(res), status |-> res.status,
                     before |-> items, atIssue |-> r.prev,
                     latest |-> r.id = nextReq,
                     alerts |-> IF apiThrows(res) THEN DeleteFailureAlerts ELSE <<>>,
                     sent |-> {q.kind : q \in pending' \ pending}]
    /\ UNCHANGED <<app, authVars, shellVars, shownFetch, pageVars, form, refreshKey, editing, saving, error, nextReq>>

\* toYmd: d.length >= 10 ? d.slice(0, 10) : d
toYmd(d) == [ymd |-> d.ymd, time |-> FALSE]

\* the Edit button of a row
onEdit(t) ==
    /\ app = "table" /\ editing = NoEdit
    /\ t \in Range(items)
    /\ error' = ""
    /\ editing' = [id |-> t.id, date |-> toYmd(t.date), amount |-> t.amount,
                   type |-> t.type, currency |-> t.currency]
    /\ lastEvent' = NoEvent
    /\ UNCHANGED <<app, authVars, shellVars, shownFetch, pageVars, form, refreshKey, items, saving, pending, server, nextReq>>

\* the values the edit dialog's inputs can be given
EditDates == {[ymd |-> "", time |-> FALSE], [ymd |-> "2024-02-02", time |-> FALSE]}
EditCurrencies == {"", "USD"}

\* the dialog's inputs: setEditing({ ...editing, [field]: value })
setEditing(field, value) ==
    /\ app = "table" /\ editing # NoEdit
    /\ \/ field = "date" /\ value \in EditDates
       \/ field = "currency" /\ value \in EditCurrencies
    /\ editing' = [editing EXCEPT ![field] = value]
    /\ lastEvent' = NoEvent
    /\ UNCHANGED <<app, authVars, shellVars, shownFetch, pageVars, form, refreshKey, items, saving, error, pending, server, nextReq>>

\* the dialog's Cancel button, disabled while saving
cancelEdit ==
    /\ app = "table" /\ editing # NoEdit /\ ~saving
    /\ editing' = NoEdit
    /\ error' = ""
    /\ lastEvent' = NoEvent
    /\ UNCHANGED <<app, authVars, shellVars, shownFetch, pageVars, form, refreshKey, items, saving, pending, server, nextReq>>

\* prev.map((x) => x.id === editing.id ? { ...x, ...editing } : x)
Optimistic(prev, e) ==
    [i \in 1..Len(prev) |->
        IF prev[i].id = e.id
          THEN [prev[i] EXCEPT !.date = e.date, !.amount = e.amount, !.type = e.type,
                               !.currency = e.currency]
          ELSE prev[i]]

\* xs.map((x) => x.id === updated.id ? updated : x)
WithUpdated_none(xs, updated) == xs
WithUpdated(xs, updated) ==
    [i \in 1..Len(xs) |-> IF xs[i].id = updated.id THEN updated ELSE xs[i]]

\* saveEdit's validation: !editing.date || !editing.currency || !editing.type
Invalid_dateOnly(e) == e.date.ymd = ""
Invalid(e) == e.date.ymd = "" \/ e.currency = "" \/ e.type = ""

\* the dialog's Save button, disabled while saving: saveEdit up to its await
saveEdit ==
    /\ app = "table" /\ editing # NoEdit /\ ~saving
    /\ IF Invalid(editing)
         THEN /\ error' = "Date, Type and Currency are required."
              /\ saving' = FALSE
              /\ UNCHANGED <<items, pending, nextReq>>
         ELSE /\ nextReq + 1 <= MaxRequests
              /\ error' = ""
              /\ saving' = TRUE
              /\ items' = Optimistic(items, editing)
              /\ pending' = pending \cup
                   {Request(nextReq + 1, "patch", editing.id, NoBody, editing, items)}
              /\ nextReq' = nextReq + 1
    /\ lastEvent' = [handler |-> "saveEdit", before |-> items, values |-> editing,
                     sent |-> {q.kind : q \in pending' \ pending}]
    /\ UNCHANGED <<app, authVars, shellVars, shownFetch, pageVars, form, refreshKey, editing, server>>

\* the backend answers a POST or PATCH it has accepted with the record
RecordResponses == {res \in Responses : res.status # 204}

\* saveEdit's finally block: setSaving(false)
SavingFinally_stuck == saving
SavingFinally == FALSE

\* saveEdit after its await
TablePatchDone(r, res) ==
    /\ app = "table" /\ r \in pending /\ r.kind = "patch"
    /\ ResOk(res.status) => CanAccept(r)
    /\ server' = IF ResOk(res.status) THEN ServerApplies(r) ELSE server
    /\ IF apiThrows(res)
         THEN /\ error' = "Failed to save changes. Please try again."
              /\ items' = Restored(r)
              /\ UNCHANGED editing
         ELSE /\ items' = WithUpdated(items, Patched(CHOOSE t \in server : t.id = r.arg, r.payload))
              /\ editing' = NoEdit
              /\ UNCHANGED error
    /\ saving' = SavingFinally
    /\ pending' = pending \ {r}
    /\ lastEvent' = [handler |-> "saveEdit.done", req |-> r.id, txn |-> r.arg,
                     ok |-> ~apiThrows(res), status |-> res.status,
                     before |-> items, atIssue |-> r.prev, alerts |-> <<>>,
                     values |-> editing, body |-> r.payload,
                     sent |-> {q.kind : q \in pending' \ pending}]
    /\ UNCHANGED <<app, authVars, shellVars, shownFetch, pageVars, form, refreshKey, nextReq>>

\* ------------------------------------------------------------ TransactionForm
\* the id the backend gives the next transaction it creates
NewId == NumTx + refreshKey + 1

\* useState's initial form (date, currency, account_id and category_id, which the model
\* never changes, are left out)
InitialForm == [amount |-> 0, type |-> "expense", description |-> ""]

FormValues == [amount : 0..MaxAmount, type : {"expense", "income"},
               description : {"", "rent"}]

\* handleChange: the input or select called name takes the value
handleChange(name, value) ==
    /\ app = "form"
    /\ [form EXCEPT ![name] = value] \in FormValues
    /\ form' = [form EXCEPT ![name] = value]
    /\ lastEvent' = [handler |-> "handleChange"]
    /\ UNCHANGED <<app, authVars, shellVars, shownFetch, pageVars, refreshKey, items, editing, saving,
                   error, pending, server, nextReq>>

\* the form's submit button: handleSubmit up to its await, which posts the form; the
\* edit dialog's overlay covers the form while the dialog is open
handleSubmit ==
    /\ Mvp /\ editing = NoEdit
    /\ nextReq + 2 <= MaxRequests
    /\ pending' = pending \cup {Request(nextReq + 1, "create", 0, NoBody, form, <<>>)}
    /\ nextReq' = nextReq + 1
    /\ lastEvent' = [handler |-> "handleSubmit",
                     sent |-> {q.kind : q \in pending' \ pending}]
    /\ UNCHANGED <<app, authVars, shellVars, shownFetch, pageVars, tableVars, server>>

\* the soft reset after the POST: setForm(f => ({...f, amount: 0, description: ''}))
SoftReset_all(f) == InitialForm
SoftReset(f) == [f EXCEPT !.amount = 0, !.description = ""]

\* the transaction the backend creates from a posted form
Created(id, posted) == [TableRow(id) EXCEPT !.type = posted.type]

\* handleSubmit after its await (nothing catches a rejection): the soft reset, then
\* onCreated() increments App's refreshKey, and TransactionsTable's effect on
\* [refreshKey] fetches the list
createDone(r, res) ==
    /\ Mvp /\ r \in pending /\ r.kind = "create"
    /\ IF apiThrows(res)
         THEN /\ pending' = pending \ {r}
              /\ UNCHANGED <<server, refreshKey, nextReq, form>>
         ELSE /\ server' = server \cup {Created(NewId, r.payload)}
              /\ form' = SoftReset(form)
              /\ refreshKey' = refreshKey + 1
              /\ pending' = (pending \ {r}) \cup {getTransactions(nextReq + 1)}
              /\ nextReq' = nextReq + 1
    /\ lastEvent' = [handler |-> "handleSubmit.done", req |-> r.id,
                     ok |-> ~apiThrows(res), status |-> res.status,
                     form |-> form, refreshKey |-> refreshKey,
                     sent |-> {q.kind : q \in pending' \ pending}]
    /\ UNCHANGED <<app, authVars, shellVars, shownFetch, pageVars, items, editing, saving, error>>

\* ------------------------------------------------------------ application shell
\* App.tsx: QueryClientProvider and ThemeProvider around the pages, Header's toggle

\* localStorage.getItem of a key that was never set
NoItem == "<null>"
\* ThemeProvider's defaultTheme
defaultTheme == "dark"
Themes == {"dark", "light", "system"}

\* useState initialiser: localStorage.getItem(storageKey) || defaultTheme
InitialTheme(stored, default) == IF stored = NoItem THEN default ELSE stored

\* the class the ThemeProvider's effect puts on the document root for a theme;
\* prefersDark is matchMedia("(prefers-color-scheme: dark)").matches
ThemeEffect(t, prefersDark) ==
    IF t = "system" THEN (IF prefersDark THEN "dark" ELSE "light") ELSE t

\* useUIStore.toggleTheme (Header's theme button)
toggleTheme ==
    /\ app = "shell"
    /\ theme' = IF theme = "dark" THEN "light" ELSE "dark"
    /\ lastEvent' = [handler |-> "toggleTheme"]
    /\ UNCHANGED <<app, authVars, pageVars, tableVars, shownFetch, providerTheme, rootClass, storage,
                   queryStatus, failureCount, pending, server, nextReq>>

\* useUIStore.setTheme
setTheme(t) ==
    /\ app = "shell"
    /\ t \in {"dark", "light"}
    /\ theme' = t
    /\ lastEvent' = [handler |-> "setTheme"]
    /\ UNCHANGED <<app, authVars, pageVars, tableVars, shownFetch, providerTheme, rootClass, storage,
                   queryStatus, failureCount, pending, server, nextReq>>

\* the setTheme of the ThemeProvider's context value, with the effect that runs when
\* the provider's theme has changed: the class of the root, then setStoreTheme
ThemeProvider_setTheme(t, prefersDark) ==
    /\ app = "shell"
    /\ t \in Themes
    /\ storage' = t
    /\ providerTheme' = t
    /\ IF t # providerTheme
         THEN /\ rootClass' = ThemeEffect(t, prefersDark)
              /\ theme' = ThemeEffect(t, prefersDark)
         ELSE UNCHANGED <<rootClass, theme>>
    /\ lastEvent' = [handler |-> "ThemeProvider.setTheme"]
    /\ UNCHANGED <<app, authVars, pageVars, tableVars, shownFetch, queryStatus, failureCount, pending,
                   server, nextReq>>

\* a useQuery's fetch: queryFn, through the ApiClient
query(id) == Request(id, "query", 0, NoBody, NoPayload, <<>>)

\* ApiClient.request: the status of the ApiError it throws, if it throws
ApiErrorStatus(status) == IF status = NetworkError THEN 0 ELSE status

\* queryClient defaultOptions.queries.retry
retry_never(count, status) == FALSE
retry(count, status) ==
    IF status # 0 /\ status >= 400 /\ status < 500
      THEN FALSE
      ELSE count < 3

\* the query's fetch has settled: on an error the query client asks retry(failureCount,
\* error) and fetches again if it says so (the delay before the retry is not modelled)
queryDone(r, status) ==
    /\ app = "shell" /\ r \in pending /\ r.kind = "query"
    /\ IF ResOk(status)
         THEN /\ queryStatus' = "success"
              /\ pending' = pending \ {r}
              /\ UNCHANGED <<failureCount, nextReq>>
         ELSE IF retry(failureCount, ApiErrorStatus(status))
                THEN /\ failureCount' = failureCount + 1
                     /\ pending' = (pending \ {r}) \cup {query(nextReq + 1)}
                     /\ nextReq' = nextReq + 1
                     /\ UNCHANGED queryStatus
                ELSE /\ failureCount' = failureCount + 1
                     /\ queryStatus' = "error"
                     /\ pending' = pending \ {r}
                     /\ UNCHANGED nextReq
    /\ lastEvent' = [handler |-> "queryFn.done", req |-> r.id, ok |-> ResOk(status),
                     status |-> status, failureCount |-> failureCount,
                     sent |-> {q.kind : q \in pending' \ pending}]
    /\ UNCHANGED <<app, authVars, pageVars, tableVars, shownFetch, theme, providerTheme, rootClass, storage,
                   server>>

\* ------------------------------------------------------------ authentication
\* App.tsx's AppContent under the AuthProvider: the LandingPage with its AuthForm, the
\* AppShell with Header's logout and the pages' queries, and the ApiClient's token

\* useState<User | null>(null)
NoUser == [id |-> -1, email |-> "<null>"]
\* an item of localStorage that holds JSON: JSON.stringify and JSON.parse
NoJson == [text |-> "<null>", value |-> NoUser]
Stringify(u) == [text |-> "json", value |-> u]
Parse(s) == s.value

Emails == {"ann@x.io", "bob@x.io"}
\* the access token the backend issues to an account
IssuedToken(email) == IF email = "ann@x.io" THEN "jwt-ann" ELSE "jwt-bob"

\* AuthForm's useState (home_currency, which the model never changes, is left out)
InitialFormData == [email |-> "", password |-> "", confirmPassword |-> "", name |-> ""]
FormDatas == [email : {""} \cup Emails, password : {"", "pw"},
              confirmPassword : {"", "pw"}, name : {"", "Ann"}]

\* AuthProvider's isAuthenticated
isAuthenticated == user # NoUser
\* AppContent: the spinner while isLoading, else the LandingPage or the AppShell
LandingMounted == ~isLoading /\ ~isAuthenticated
ShellMounted == ~isLoading /\ isAuthenticated

\* ApiClient.request: the Authorization header, if any
Authorization(tok) == IF tok # NoItem THEN <<"Bearer", tok>> ELSE <<>>

\* a request of the authentication front end; failures counts the failed fetches of the
\* query it belongs to
AuthRequest(id, kind, data, header, failures) ==
    Request(id, kind, failures, NoBody,
            [email |-> data.email, password |-> data.password, name |-> data.name,
             Authorization |-> header, instance |-> formInstance], <<>>)

\* the values of a LandingPage and its AuthForm that have just been mounted (and the
\* values the model gives them while they are not mounted)
FreshForm ==
    /\ isLogin' = TRUE
    /\ formData' = InitialFormData
    /\ formError' = ""

\* AppContent after a change of user or isLoading: a LandingPage that was not on the
\* screen is mounted afresh
Remount ==
    /\ FreshForm
    /\ formInstance' = IF ~isLoading' /\ user' = NoUser /\ ~LandingMounted
                         THEN formInstance + 1 ELSE formInstance

\* LandingPage's buttons: setIsLogin
setIsLogin(value) ==
    /\ app = "auth" /\ LandingMounted
    /\ isLogin' = value
    /\ lastEvent' = [handler |-> "setIsLogin"]
    /\ UNCHANGED <<app, pageVars, tableVars, shellVars, shownFetch, pending, server, nextReq,
                   user, isLoading, token, localUser, accessToken, formData, formError,
                   formInstance>>

\* AuthForm.handleChange
AuthForm_handleChange(name, value) ==
    /\ app = "auth" /\ LandingMounted
    /\ [formData EXCEPT ![name] = value] \in FormDatas
    /\ formData' = [formData EXCEPT ![name] = value]
    /\ lastEvent' = [handler |-> "AuthForm.handleChange"]
    /\ UNCHANGED <<app, pageVars, tableVars, shellVars, shownFetch, pending, server, nextReq,
                   user, isLoading, token, localUser, accessToken, isLogin, formError,
                   formInstance>>

\* AuthForm.handleSubmit's client-side validation: the error it sets, "" if none
ValidationError(d, login) ==
    IF d.email = "" \/ d.password = "" THEN "Please fill in all required fields"
    ELSE IF ~login /\ d.name = "" THEN "Please enter your full name"
    ELSE IF ~login /\ d.password # d.confirmPassword THEN "Passwords do not match"
    ELSE ""

\* AuthForm.handleSubmit up to the await in login or register: after the validation
\* setError(""), then login (a fetch without Authorization) or register (through the
\* ApiClient) sets isLoading and sends its request; with isLoading AppContent renders
\* the spinner in place of the LandingPage
AuthForm_handleSubmit ==
    /\ app = "auth" /\ LandingMounted
    /\ IF ValidationError(formData, isLogin) # ""
         THEN /\ formError' = ValidationError(formData, isLogin)
              /\ UNCHANGED <<isLoading, pending, nextReq, isLogin, formData>>
         ELSE /\ nextReq < MaxRequests
              /\ isLoading' = TRUE
              /\ pending' = pending \cup
                    {IF isLogin
                       THEN AuthRequest(nextReq + 1, "login", formData, <<>>, 0)
                       ELSE AuthRequest(nextReq + 1, "register", formData,
                                        Authorization(token), 0)}
              /\ nextReq' = nextReq + 1
              /\ FreshForm
    /\ lastEvent' = [handler |-> "AuthForm.handleSubmit",
                     valid |-> ValidationError(formData, isLogin) = "",
                     sent |-> pending' \ pending]
    /\ UNCHANGED <<app, pageVars, tableVars, shellVars, shownFetch, server, user, token,
                   localUser, accessToken, formInstance>>

\* the outcomes of POST /auth/login
LoginStatuses == {200, 401, 422, 500, NetworkError}
\* the message of the error login throws for a response that is not ok, or for none
LoginError(status) ==
    CASE status = 401 -> "Invalid email or password. Please check your credentials and try again."
      [] status = 422 -> "Please enter a valid email address."
      [] status = NetworkError -> "Failed to fetch"
      [] OTHER -> "HTTP status"

\* the user object login builds from the email
LoginUser(email) == [id |-> 0, email |-> email]

\* login after its await: the token and the user are stored, or the error is thrown to
\* AuthForm.handleSubmit, whose catch sets the error of the AuthForm that called login;
\* finally setIsLoading(false)
loginDone(r, status) ==
    /\ app = "auth" /\ r \in pending /\ r.kind = "login"
    /\ pending' = pending \ {r}
    /\ isLoading' = FALSE
    /\ IF ResOk(status)
         THEN /\ accessToken' = IssuedToken(r.payload.email)
              /\ token' = IssuedToken(r.payload.email)
              /\ user' = LoginUser(r.payload.email)
              /\ localUser' = Stringify(LoginUser(r.payload.email))
         ELSE UNCHANGED <<accessToken, token, user, localUser>>
    /\ Remount
    /\ lastEvent' = [handler |-> "login.done", req |-> r.id, ok |-> ResOk(status),
                     status |-> status, email |-> r.payload.email,
                     password |-> r.payload.password, instance |-> r.payload.instance,
                     message |-> IF ResOk(status) THEN "" ELSE LoginError(status)]
    /\ UNCHANGED <<app, pageVars, tableVars, shellVars, shownFetch, server, nextReq>>

\* ApiClient.request throws: a response that is not ok, no response, or a body that is
\* not JSON
requestThrows(res) == res.status = NetworkError \/ ~ResOk(res.status) \/ res.body # "json"

\* the id the backend gives a new account
NewUserId == 1

\* register after its await: the user of the response is stored, or an error is thrown;
\* finally setIsLoading(false)
registerDone(r, res) ==
    /\ app = "auth" /\ r \in pending /\ r.kind = "register"
    /\ pending' = pending \ {r}
    /\ isLoading' = FALSE
    /\ IF requestThrows(res)
         THEN UNCHANGED <<user, localUser>>
         ELSE /\ user' = [id |-> NewUserId, email |-> r.payload.email]
              /\ localUser' = Stringify([id |-> NewUserId, email |-> r.payload.email])
    /\ Remount
    /\ lastEvent' = [handler |-> "register.done", req |-> r.id, ok |-> ~requestThrows(res),
                     status |-> res.status, email |-> r.payload.email,
                     instance |-> r.payload.instance]
    /\ UNCHANGED <<app, pageVars, tableVars, shellVars, shownFetch, server, nextReq, token,
                   accessToken>>

\* ApiClient.setToken(null)
setTokenNull_keep == token
setTokenNull == NoItem

\* AuthProvider.logout (Header's button, in the AppShell)
logout ==
    /\ app = "auth" /\ ShellMounted
    /\ user' = NoUser
    /\ localUser' = NoJson
    /\ accessToken' = NoItem
    /\ token' = setTokenNull
    /\ UNCHANGED isLoading
    /\ Remount
    /\ lastEvent' = [handler |-> "logout"]
    /\ UNCHANGED <<app, pageVars, tableVars, shellVars, shownFetch, pending, server, nextReq>>

\* a page of the AppShell is opened and its useQuery fetches through the ApiClient
openPage ==
    /\ app = "auth" /\ ShellMounted
    /\ nextReq < MaxRequests
    /\ pending' = pending \cup
          {AuthRequest(nextReq + 1, "pageQuery", InitialFormData, Authorization(token), 0)}
    /\ nextReq' = nextReq + 1
    /\ lastEvent' = [handler |-> "openPage", sent |-> pending' \ pending]
    /\ UNCHANGED <<app, pageVars, tableVars, shellVars, shownFetch, server, authVars>>

\* a page's fetch has settled; after a failure the query client fetches again if retry
\* says so, with the token the ApiClient holds then
pageQueryDone(r, status) ==
    /\ app = "auth" /\ r \in pending /\ r.kind = "pageQuery"
    /\ IF ~ResOk(status) /\ retry(r.arg, ApiErrorStatus(status))
         THEN /\ nextReq < MaxRequests
              /\ pending' = (pending \ {r}) \cup
                    {AuthRequest(nextReq + 1, "pageQuery", InitialFormData,
                                 Authorization(token), r.arg + 1)}
              /\ nextReq' = nextReq + 1
         ELSE /\ pending' = pending \ {r}
              /\ UNCHANGED nextReq
    /\ lastEvent' = [handler |-> "pageQuery.done", req |-> r.id, ok |-> ResOk(status),
                     status |-> status, sent |-> pending' \ pending]
    /\ UNCHANGED <<app, pageVars, tableVars, shellVars, shownFetch, server, authVars>>

\* the app is started again (the page is reloaded): the ApiClient is constructed and
\* loads its token, the AuthProvider's effect restores a saved session, and the
\* requests of the page that was left are abandoned
appStart ==
    /\ app = "auth"
    /\ formInstance < MaxMounts
    /\ pending' = {}
    /\ isLoading' = FALSE
    /\ token' = accessToken
    /\ user' = IF localUser # NoJson /\ accessToken # NoItem THEN Parse(localUser) ELSE NoUser
    /\ FreshForm
    /\ formInstance' = IF user' = NoUser THEN formInstance + 1 ELSE formInstance
    /\ lastEvent' = [handler |-> "appStart"]
    /\ UNCHANGED <<app, pageVars, tableVars, shellVars, shownFetch, server, nextReq,
                   localUser, accessToken>>

\* ------------------------------------------------------------ specification
Init ==
    /\ app \in {"page", "table", "form", "shell", "auth"}
    /\ transactions = <<>>
    /\ people = <<>>
    /\ showSplitModal = FALSE
    /\ selectedTransaction = NoRow
    /\ shares = NoShares
    /\ payer = NoPayer
    /\ items = <<>>
    /\ editing = NoEdit
    /\ saving = FALSE
    /\ error = ""
    /\ refreshKey = 0
    /\ form = InitialForm
    /\ shownFetch = 0
    \* a first visit: nothing stored, the UI store and the ThemeProvider at their
    \* defaults, and the ThemeProvider's effect has run
    /\ storage = NoItem
    /\ theme = "dark"
    /\ providerTheme = InitialTheme(storage, defaultTheme)
    /\ rootClass = ThemeEffect(providerTheme, TRUE)
    /\ queryStatus = IF app = "shell" THEN "pending" ELSE "idle"
    /\ failureCount = 0
    /\ server = CASE app = "page" -> {PageRow(i) : i \in 1..NumTx}
                   [] Mvp -> {TableRow(i) : i \in 1..NumTx}
                   [] OTHER -> {}
    \* the mount effects: TransactionsPage fetches the transactions and the people,
    \* TransactionsTable the transactions; the shell's page starts its query
    /\ pending = CASE app = "page" -> {getTransactions(1), getPeople(2)}
                    [] Mvp -> {getTransactions(1)}
                    [] app = "shell" -> {query(1)}
                    [] OTHER -> {}
    /\ nextReq = CASE app = "page" -> 2
                    [] app = "auth" -> 0
                    [] OTHER -> 1
    \* a first visit: no session stored, the ApiClient without a token, and the
    \* AuthProvider's effect has run, so that the LandingPage is on the screen
    /\ user = NoUser
    /\ isLoading = FALSE
    /\ token = NoItem
    /\ localUser = NoJson
    /\ accessToken = NoItem
    /\ isLogin = TRUE
    /\ formData = InitialFormData
    /\ formError = ""
    /\ formInstance = 1
    /\ lastEvent = NoEvent

Next ==
    \/ \E r \in pending, ok \in BOOLEAN : ServerAnswer(r, ok)
    \/ \E r \in pending : PageTransactionsLoaded(r)
    \/ \E r \in pending, ok \in BOOLEAN : PagePeopleLoaded(r, ok)
    \/ \E row \in Range(transactions) : handleOpenSplitModal(row)
    \/ \E index \in 1..NumPeople, text \in InputTexts : handleAmountChange(index, text)
    \/ \E p \in 1..NumPeople : setPayer(p)
    \/ onClose
    \/ \E roundsUp \in BOOLEAN : handleSave(roundsUp)
    \/ \E r \in pending, status \in Statuses : splitDone(r, status)
    \/ \E row \in Range(transactions), confirmed \in BOOLEAN : handleDeleteRow(row, confirmed)
    \/ \E r \in pending, status \in Statuses : deleteDone(r, status)
    \/ \E r \in pending : TableItemsLoaded(r)
    \/ \E id \in {x.id : x \in Range(items)}, confirmed \in BOOLEAN : onDelete(id, confirmed)
    \/ \E r \in pending, res \in Responses : TableDeleteDone(r, res)
    \/ \E t \in Range(items) : onEdit(t)
    \/ \E value \in EditDates : setEditing("date", value)
    \/ \E value \in EditCurrencies : setEditing("currency", value)
    \/ cancelEdit
    \/ saveEdit
    \/ \E r \in pending, res \in RecordResponses : TablePatchDone(r, res)
    \/ \E value \in 0..MaxAmount : handleChange("amount", value)
    \/ \E value \in {"expense", "income"} : handleChange("type", value)
    \/ \E value \in {"", "rent"} : handleChange("description", value)
    \/ handleSubmit
    \/ \E r \in pending, res \in RecordResponses : createDone(r, res)
    \/ toggleTheme
    \/ \E t \in {"dark", "light"} : setTheme(t)
    \/ \E t \in Themes, prefersDark \in BOOLEAN : ThemeProvider_setTheme(t, prefersDark)
    \/ \E r \in pending, status \in Statuses : queryDone(r, status)
    \/ \E value \in BOOLEAN : setIsLogin(value)
    \/ \E value \in {""} \cup Emails : AuthForm_handleChange("email", value)
    \/ \E value \in {"", "pw"} : AuthForm_handleChange("password", value)
    \/ \E value \in {"", "pw"} : AuthForm_handleChange("confirmPassword", value)
    \/ \E value \in {"", "Ann"} : AuthForm_handleChange("name", value)
    \/ AuthForm_handleSubmit
    \/ \E r \in pending, status \in LoginStatuses : loginDone(r, status)
    \/ \E r \in pending, res \in RecordResponses : registerDone(r, res)
    \/ logout
    \/ openPage
    \/ \E r \in pending, status \in Statuses : pageQueryDone(r, status)
    \/ appStart

Spec == Init /\ [][Next]_vars

\* a PATCH that was sent settles (a response, or a network error) and saveEdit's
\* continuation runs
PatchSettles == \E r \in pending, res \in RecordResponses : TablePatchDone(r, res)

LiveSpec == Init /\ [][Next]_vars /\ WF_vars(PatchSettles)

\* ------------------------------------------------------------ claims
\* what the last handler was, for the claims below
SavePressed == lastEvent.handler = "handleSave"
SaveAccepted == SavePressed /\ lastEvent.onSave # <<>>
SplitFailed == lastEvent.handler = "handleSaveSplitModal" /\ ~lastEvent.ok
SplitSucceeded == lastEvent.handler = "handleSaveSplitModal" /\ lastEvent.ok

\* C1: whenever Save is pressed with |amount_total - sum of the shares| <= 0.01, onSave
\* is called exactly once, with the selected payer and the editor's share list
C1_AcceptedWithinTolerance ==
    (SavePressed /\ Abs(lastEvent.total - SumAmounts(lastEvent.shares)) <= Tolerance)
        => lastEvent.onSave =
              <<[payer_person_id |-> lastEvent.payer, shares |-> lastEvent.shares]>>

\* C2: whenever Save is pressed with |amount_total - sum of the shares| > 0.01, onSave is
\* not called, no request is sent, a message is shown and the editor stays open with
\* its shares and payer unchanged
C2_BlockedOutsideTolerance ==
    (SavePressed /\ Abs(lastEvent.total - SumAmounts(lastEvent.shares)) > Tolerance)
        => /\ lastEvent.onSave = <<>>
           /\ lastEvent.sent = {}
           /\ lastEvent.alerts # <<>>
           /\ Mounted
           /\ selectedTransaction.id = lastEvent.txn
           /\ shares = lastEvent.shares
           /\ payer = lastEvent.payer

\* Save pressed on untouched zero shares of every person: blocked
C2_Witness ==
    /\ SavePressed
    /\ lastEvent.alerts # <<>>
    /\ Len(lastEvent.shares) = NumPeople
    /\ SumAmounts(lastEvent.shares) = 0

\* C3: when the split request fails, the error is shown and the editor is still open
\* with the shares and the payer that were submitted
C3_FailureKeepsEditorOpen ==
    SplitFailed
        => /\ lastEvent.alerts # <<>>
           /\ Mounted
           /\ selectedTransaction.id = lastEvent.txn
           /\ shares = lastEvent.payload.shares
           /\ payer = lastEvent.payload.payer_person_id

\* C4: the body POSTed to /transactions/{id}/split is { payer_person_id, shares } with
\* the payer's numeric id and the share list the editor emitted
C4_PostedBodyShape ==
    \A r \in pending : r.kind = "split" =>
        /\ r.body.payer_person_id.t = "number"
        /\ r.body.payer_person_id.v = r.payload.payer_person_id
        /\ r.body.shares.t = "array"
        /\ r.body.shares.v = r.payload.shares

\* C5: the shares of every payload the editor lets through sum to amount_total exactly
C5_PayloadSumsToTotal ==
    SaveAccepted => SumAmounts(lastEvent.onSave[1].shares) = lastEvent.total

\* the share list has exactly one entry, with source "user_manual", for every person
OneEntryPerPerson(sh, ps) ==
    /\ Len(sh) = Len(ps)
    /\ \A p \in Range(ps) :
          Cardinality({i \in DOMAIN sh : sh[i].person_id = p.id
                                         /\ sh[i].source = "user_manual"}) = 1

\* C6: every payload the editor emits has exactly one share entry per person of the
\* people list shown, also when the list was loaded after the editor was opened
C6_OneSharePerPerson ==
    SaveAccepted => OneEntryPerPerson(lastEvent.onSave[1].shares, lastEvent.people)

\* C7: every share amount in the editor is non-negative
C7_SharesNonNegative == \A i \in DOMAIN shares : shares[i].amount >= 0

\* C8: whenever the editor is opened, also after earlier sessions, every share is zero
\* and the payer is the transaction's payer
C8_ReopenShowsDefaults ==
    lastEvent.handler = "handleOpenSplitModal"
        => /\ payer = selectedTransaction.payer_person_id
           /\ Len(shares) = Len(people)
           /\ \A i \in DOMAIN shares :
                 shares[i] = [person_id |-> people[i].id, amount |-> 0,
                              source |-> "user_manual"]

\* the editor is opened again, on the second row, right after a session in which the
\* shares or the payer were changed
C8_Witness ==
    /\ lastEvent.handler = "handleOpenSplitModal"
    /\ lastEvent.dirty
    /\ people # <<>>
    /\ selectedTransaction.id = NumTx

\* C9: when the split request succeeds the editor is closed, the selection cleared and
\* the list fetched again; the fetch is sent by the continuation that runs after the
\* split request has completed, not by the Save handler and not after a failure
C9_SuccessClosesAndRefetches ==
    /\ SplitSucceeded => /\ ~showSplitModal
                         /\ selectedTransaction = NoRow
                         /\ lastEvent.sent = {"getTransactions"}
    /\ SplitFailed => lastEvent.sent = {}
    /\ SavePressed => "getTransactions" \notin lastEvent.sent

C9_Witness == SplitSucceeded /\ lastEvent.payload.shares # <<>>

\* a mutating request of TransactionsTable / TransactionsPage has just failed
TableFailure == lastEvent.handler \in {"onDelete.done", "saveEdit.done"} /\ ~lastEvent.ok
PageFailure == lastEvent.handler \in {"handleDeleteRow.done", "handleSaveSplitModal"}
               /\ ~lastEvent.ok
PageSent == lastEvent.handler \in {"handleDeleteRow", "handleSave"} /\ lastEvent.sent # {}

\* C10 as stated: a failed delete, update or split leaves the displayed list the same
\* before the request, while it is in flight and after it has failed
C10_ListSameBeforeDuringAfter ==
    /\ TableFailure => /\ lastEvent.before = lastEvent.atIssue
                       /\ items = lastEvent.atIssue
    /\ PageFailure => transactions = lastEvent.before
    /\ PageSent => transactions = lastEvent.before

\* C10 as amended: TransactionsPage changes its list neither when it sends a delete or
\* split nor when that request fails; TransactionsTable, whose delete and update change
\* the list while the request is in flight, puts back on failure the list that was
\* displayed when the request was sent
C10_FailureRestoresList ==
    /\ TableFailure => items = lastEvent.atIssue
    /\ PageFailure => transactions = lastEvent.before
    /\ PageSent => transactions = lastEvent.before

\* a TransactionsTable delete fails while the row is optimistically removed
C10_Witness ==
    /\ lastEvent.handler = "onDelete.done" /\ ~lastEvent.ok
    /\ lastEvent.before # lastEvent.atIssue
    /\ Len(lastEvent.atIssue) = NumTx

\* a request that changes the backend's data: a split, a delete or an update
Mutating(r) == r.kind \in {"split", "delete", "patch"}

\* C11: at any time at most one mutating request (split, delete or update) issued by
\* the client is in flight
C11_SingleMutatingRequest == Cardinality({r \in pending : Mutating(r)}) <= 1

\* this step hands the response of a successful GET /transactions to the list
ListingLoaded(new) ==
    \E r \in pending : /\ r.kind = "getTransactions" /\ r.status = "ok"
                       /\ r \notin pending'
                       /\ new = r.resp

\* ys is xs without one of its entries
RemovedOne(xs, ys) ==
    \E i \in DOMAIN xs :
        ys = [j \in 1..(Len(xs) - 1) |-> IF j < i THEN xs[j] ELSE xs[j + 1]]

\* ys is xs with one entry replaced by a record of the same id
ReplacedOne(xs, ys) ==
    /\ Len(ys) = Len(xs)
    /\ \E i \in DOMAIN xs : /\ ys[i].id = xs[i].id
                            /\ \A j \in DOMAIN xs : j # i => ys[j] = xs[j]

\* this step handles the failure of a delete or update by putting back the list
\* captured when the request was sent
PutBack(new) ==
    \E r \in pending : /\ r.kind \in {"delete", "patch"}
                       /\ r \notin pending'
                       /\ new = r.prev

\* C12 as stated: the displayed list changes only by being replaced wholesale with a
\* server listing; it is never patched item by item
C12_OnlyReplacedByListing ==
    [][/\ transactions' # transactions => ListingLoaded(transactions')
       /\ items' # items => ListingLoaded(items')]_vars

\* C12 as amended: TransactionsPage's list changes only by being replaced with a
\* fetched server listing; TransactionsTable's list changes by such a replacement, by
\* the local removal of one row (delete), by the local replacement of one row (the
\* optimistic update and the server's record), or by putting back the list captured
\* when a failed request was sent
C12_ListChanges ==
    [][/\ transactions' # transactions => ListingLoaded(transactions')
       /\ items' # items => \/ ListingLoaded(items')
                            \/ RemovedOne(items, items')
                            \/ ReplacedOne(items, items')
                            \/ PutBack(items')]_vars

\* TransactionsTable has removed the second of its rows from the displayed list
\* while the DELETE is in flight
C12_Witness ==
    /\ lastEvent.handler = "onDelete" /\ lastEvent.sent = {"delete"}
    /\ Len(lastEvent.before) = NumTx
    /\ Len(items) = NumTx - 1
    /\ \A x \in Range(items) : x.id # NumTx

\* the last step handled the failure of a request
RequestFailed ==
    /\ lastEvent.handler \in {"handleSaveSplitModal", "handleDeleteRow.done",
                              "onDelete.done", "saveEdit.done", "queryFn.done"}
    /\ ~lastEvent.ok

\* C13 as stated: no failed request is ever sent again automatically, whatever the
\* kind of failure (network error, 5xx or 4xx)
C13_NeverReissued == RequestFailed => lastEvent.sent = {}

\* C13 as amended: a failed split, delete or update is never sent again, whatever the
\* failure; a failed query of the query client is sent again, up to 3 times, unless
\* the error's status is 4xx
C13_OnlyQueriesRetried ==
    /\ (RequestFailed /\ lastEvent.handler # "queryFn.done") => lastEvent.sent = {}
    /\ (RequestFailed /\ lastEvent.handler = "queryFn.done") =>
          IF lastEvent.status \in 400..499 \/ lastEvent.failureCount >= 3
            THEN lastEvent.sent = {}
            ELSE lastEvent.sent = {"query"}

\* the query has failed for the third time, with a 500, and is fetched once more
C13_Witness ==
    /\ RequestFailed /\ lastEvent.handler = "queryFn.done"
    /\ lastEvent.status = 500
    /\ lastEvent.failureCount = 2
    /\ lastEvent.sent = {"query"}

\* the last step put the response of a GET /transactions in the displayed list
ListingShown == lastEvent.handler \in {"setTransactions", "setItems"} /\ lastEvent.ok

\* C14: the response of a fetch never replaces the response of a fetch that was issued
\* after it, so that once every request has completed the list shown is the response
\* to the fetch issued last
C14_NewestListingShown == ListingShown => lastEvent.req > lastEvent.shown

\* C15: after any sequence of toggleTheme and setTheme operations the theme class of
\* the document root ("dark" or "light") is the theme held in the UI store
C15_RootClassMatchesStore == rootClass = theme

\* the last step handled the answer to a TransactionsTable DELETE that the backend
\* did not accept (an error status or no response)
DeleteFailed == lastEvent.handler = "onDelete.done" /\ ~ResOk(lastEvent.status)

\* C16: when a TransactionsTable DELETE fails and no request was sent since it was,
\* the displayed list is again the list displayed when Delete was pressed (same rows,
\* same order) and the failure alert is shown
C16_FailedDeleteRestores ==
    (DeleteFailed /\ lastEvent.latest)
        => /\ items = lastEvent.atIssue
           /\ lastEvent.alerts = <<"Failed to delete. Restoring item.">>

\* a DELETE of the first of all rows is answered 500 with nothing else started: the
\* row, removed while the request was in flight, is back in its place
C16_Witness ==
    /\ DeleteFailed /\ lastEvent.latest
    /\ lastEvent.status = 500
    /\ lastEvent.txn = 1
    /\ Len(lastEvent.before) = NumTx - 1
    /\ Len(items) = NumTx /\ items[1].id = 1

\* no delete or update is in flight
AllSettled == \A r \in pending : r.kind \notin {"delete", "patch"}

\* C17: once every delete and update of TransactionsTable has settled, however the
\* requests overlapped, the displayed list has no row whose DELETE succeeded (every row
\* shown is a row the backend still has), shows the backend's version of every row
\* whose PATCH succeeded (every row shown is the backend's record), and has every row
\* whose DELETE failed
C17_SettledListMatchesBackend ==
    (app = "table" /\ AllSettled)
        => /\ \A x \in Range(items) : \E t \in server : t.id = x.id
           /\ \A x \in Range(items) : \A t \in server : t.id = x.id => t = x
           /\ DeleteFailed => \E x \in Range(items) : x.id = lastEvent.txn

\* C18: whenever the backend answers a TransactionsTable DELETE with a success status,
\* 204 No Content with an empty body included, the row stays removed from the
\* displayed list as it is (onDelete leaves the list alone: no rollback) and no failure
\* alert is shown
C18_SuccessStatusIsSuccess ==
    (lastEvent.handler = "onDelete.done" /\ ResOk(lastEvent.status))
        => /\ items = lastEvent.before
           /\ lastEvent.alerts = <<>>

\* C19: when Save is pressed in the edit dialog with an empty date, type or currency,
\* no request is sent, the displayed list is unchanged, the message 'Date, Type and
\* Currency are required.' is set, the dialog stays open with its values and saving is
\* false
C19_InvalidEditRejected ==
    (/\ lastEvent.handler = "saveEdit"
     /\ \/ lastEvent.values.date.ymd = ""
        \/ lastEvent.values.type = ""
        \/ lastEvent.values.currency = "")
        => /\ lastEvent.sent = {}
           /\ items = lastEvent.before
           /\ error = "Date, Type and Currency are required."
           /\ editing = lastEvent.values
           /\ ~saving

\* Save pressed with the currency emptied and a date entered
C19_Witness ==
    /\ lastEvent.handler = "saveEdit"
    /\ lastEvent.values.currency = ""
    /\ lastEvent.values.date.ymd = "2024-02-02"
    /\ error # ""

\* the last step handled the answer to a PATCH
PatchFailed == lastEvent.handler = "saveEdit.done" /\ ~lastEvent.ok
PatchSucceeded == lastEvent.handler = "saveEdit.done" /\ lastEvent.ok

PatchInFlight == \E r \in pending : r.kind = "patch"

\* C21: every saveEdit leaves saving false in the end (at once when the validation
\* fails, and once the PATCH has succeeded or failed otherwise), and whenever saving is
\* false no PATCH is in flight
C21_SavingFollowsPatch ==
    /\ [](~saving => ~PatchInFlight)
    /\ saving ~> ~saving

\* a PATCH has failed: saving is false again, with the dialog still open
C21_Witness ==
    /\ PatchFailed
    /\ ~saving
    /\ ~PatchInFlight
    /\ editing # NoEdit

\* the POST of a handleSubmit has settled
SubmitSettled == lastEvent.handler = "handleSubmit.done"

\* C22: onCreated is called (and refreshKey incremented) only after the POST has
\* succeeded; on success only amount and description are reset, the form's other values
\* are kept; on failure the form keeps every value and refreshKey is unchanged
C22_SubmitOutcome ==
    /\ [][refreshKey' # refreshKey =>
            /\ lastEvent'.handler = "handleSubmit.done" /\ lastEvent'.ok
            /\ \E r \in pending : r.kind = "create" /\ r.id = lastEvent'.req
            /\ refreshKey' = refreshKey + 1]_vars
    /\ [](SubmitSettled /\ lastEvent.ok =>
            /\ form.amount = 0 /\ form.description = ""
            /\ form.type = lastEvent.form.type
            /\ refreshKey = lastEvent.refreshKey + 1)
    /\ [](SubmitSettled /\ ~lastEvent.ok =>
            /\ form = lastEvent.form
            /\ refreshKey = lastEvent.refreshKey)

\* a filled-in form whose POST succeeded: amount and description are reset, the type
\* the user chose is still there
C22_Witness ==
    /\ SubmitSettled /\ lastEvent.ok
    /\ lastEvent.form = [amount |-> MaxAmount, type |-> "income", description |-> "rent"]
    /\ form = [amount |-> 0, type |-> "income", description |-> ""]
    /\ refreshKey = 1

\* C23: in every state where isAuthenticated is true the apiClient holds an access token
\* and the same token is stored under access_token in localStorage
C23_AuthenticatedHasToken ==
    (app = "auth" /\ isAuthenticated) => (token # NoItem /\ accessToken = token)

\* Header's logout has just run
LoggedOut == lastEvent.handler = "logout"
\* a login has just succeeded
LoginSucceeded == lastEvent.handler = "login.done" /\ lastEvent.ok

\* C24: after logout user is null, isAuthenticated is false, localStorage holds neither
\* user nor access_token and the apiClient's token is null; from then on the token, in
\* the apiClient and in localStorage, stays null until a login succeeds, and a request
\* is sent with an Authorization header only while the apiClient holds a token
C24_LogoutClearsSession ==
    /\ [](LoggedOut =>
            /\ user = NoUser /\ ~isAuthenticated
            /\ localUser = NoJson /\ accessToken = NoItem
            /\ token = NoItem)
    /\ [][(token = NoItem /\ accessToken = NoItem /\ (token' # NoItem \/ accessToken' # NoItem))
            => LoginSucceeded']_vars
    /\ [][app = "auth" =>
            \A r \in pending' \ pending : r.payload.Authorization # <<>> => token # NoItem]_vars

\* logout has run while a request sent with the session's token was still in flight
C24_Witness ==
    /\ LoggedOut
    /\ token = NoItem
    /\ \E r \in pending : r.kind = "pageQuery" /\ r.payload.Authorization # <<>>

\* a login has just failed
LoginFailed == lastEvent.handler = "login.done" /\ ~lastEvent.ok

\* C25: when a login fails, the AuthForm that issued it displays the error message and
\* still holds the email and the password that were entered, and the user is not
\* authenticated and no token is stored
C25_FailedLoginShown ==
    LoginFailed =>
        /\ formInstance = lastEvent.instance
        /\ formError = lastEvent.message
        /\ formData.email = lastEvent.email
        /\ formData.password = lastEvent.password
        /\ ~isAuthenticated
        /\ token = NoItem /\ accessToken = NoItem

====
